---------------------------- MODULE Spec2Model ----------------------------
(***************************************************************************)
(* Model of bindings/python/cntk/graph.py: the iterative depth-first       *)
(* search over a CNTK computation graph (depth_first_search), the three    *)
(* name-lookup wrappers built on it, and output_function_graph.            *)
(*                                                                         *)
(* A graph is a sequence of node records; a node is its index.  Python     *)
(* lists are sequences whose last element is the top of the stack          *)
(* (list.pop() removes the last element, append/extend add at the end).    *)
(***************************************************************************)
EXTENDS Integers, Sequences, FiniteSets, TLC

\* Largest integer passed as max_depth (None is passed as well).
MaxDepthArg == 2

\* Python's None, where an integer or a node is expected.
None == -1

-----------------------------------------------------------------------------
(* The graph-node object model (external to graph.py): which attributes a  *)
(* node has decides which try-branch of the traversal it takes.            *)

Fn(nm, op, ins, outs) ==
    [kind |-> "Function", name |-> nm, op_name |-> op, inputs |-> ins,
     outputs |-> outs, root_function |-> 0, block_root |-> 0,
     mapping |-> <<>>, is_output |-> FALSE, owner |-> 0]

Blk(nm, op, ins, outs, comp, map) ==
    [kind |-> "Block", name |-> nm, op_name |-> op, inputs |-> ins,
     outputs |-> outs, root_function |-> 0, block_root |-> comp,
     mapping |-> map, is_output |-> FALSE, owner |-> 0]

Comp(nm, rf) ==
    [kind |-> "Composite", name |-> nm, op_name |-> "", inputs |-> <<>>,
     outputs |-> <<>>, root_function |-> rf, block_root |-> 0,
     mapping |-> <<>>, is_output |-> FALSE, owner |-> 0]

Var(nm) ==
    [kind |-> "Variable", name |-> nm, op_name |-> "", inputs |-> <<>>,
     outputs |-> <<>>, root_function |-> 0, block_root |-> 0,
     mapping |-> <<>>, is_output |-> FALSE, owner |-> 0]

Out(nm, f) ==
    [kind |-> "Variable", name |-> nm, op_name |-> "", inputs |-> <<>>,
     outputs |-> <<>>, root_function |-> 0, block_root |-> 0,
     mapping |-> <<>>, is_output |-> TRUE, owner |-> f]

\* t = Plus(Times(x, w), x): the leaf x is an input of two functions.
GShared ==
    << Fn("t", "Plus", <<3, 5>>, <<2>>),
       Out("t", 1),
       Out("u", 4),
       Fn("u", "Times", <<5, 6>>, <<3>>),
       Var("v"),
       Var("t") >>

\* Plus(x, Times(y, Log(x))): x is an input of the root and of a deep node.
GDeep ==
    << Fn("v", "Plus", <<2, 3>>, <<8>>),
       Var("t"),
       Out("u", 4),
       Fn("u", "Times", <<5, 6>>, <<3>>),
       Var("t"),
       Out("v", 7),
       Fn("v", "Log", <<2>>, <<6>>),
       Out("v", 1) >>

\* A recurrence: Plus(x, PastValue(Plus(...))), a cycle through owners.
GLoop ==
    << Fn("t", "Plus", <<3, 4>>, <<2>>),
       Out("t", 1),
       Var("u"),
       Out("t", 5),
       Fn("t", "PastValue", <<2>>, <<4>>) >>

\* Splice(Dense(x), x, Dense(x)) where Dense is a block over Times(p, w).
GBlock ==
    << Fn("u", "Splice", <<2, 4, 2>>, <<10>>),
       Out("t", 3),
       Blk("t", "Dense", <<4, 8>>, <<2>>, 5, << <<7, 4>> >>),
       Var("u"),
       Comp("t", 6),
       Fn("v", "Times", <<7, 8>>, <<9>>),
       Var("u"),
       Var("v"),
       Out("v", 6),
       Out("u", 1) >>

\* Outer(Relu(x)), a block whose composite Plus(Inner(p1), p1) holds the
\* block Inner over Exp(p2).
GNested ==
    << Blk("t", "Outer", <<2>>, <<11>>, 3, << <<7, 2>> >>),
       Out("u", 12),
       Comp("t", 4),
       Fn("v", "Plus", <<5, 7>>, <<14>>),
       Out("u", 6),
       Blk("u", "Inner", <<7>>, <<5>>, 8, << <<10, 7>> >>),
       Var("v"),
       Comp("u", 9),
       Fn("t", "Exp", <<10>>, <<15>>),
       Var("v"),
       Out("t", 1),
       Fn("u", "Relu", <<13>>, <<2>>),
       Var("t"),
       Out("v", 4),
       Out("t", 9) >>

\* The same graph with every node given the name "t".
SameName(g) == [i \in 1..Len(g) |-> [g[i] EXCEPT !.name = "t"]]

\* Minus(Mul2(Sigmoid(y), y), Sigmoid(y)) where Mul2 is a block of two
\* arguments over ElementTimes(p, q).
GPair ==
    << Fn("u", "Minus", <<2, 9>>, <<12>>),
       Out("t", 3),
       Blk("t", "Mul2", <<9, 10>>, <<2>>, 4, << <<6, 9>>, <<7, 10>> >>),
       Comp("v", 5),
       Fn("v", "ElementTimes", <<6, 7>>, <<8>>),
       Var("u"),
       Var("u"),
       Out("v", 5),
       Out("t", 11),
       Var("v"),
       Fn("t", "Sigmoid", <<10>>, <<9>>),
       Out("u", 1) >>

\* The same graph with the inputs of every function in the opposite order.
Mirror(g) ==
    [i \in 1..Len(g) |->
        [g[i] EXCEPT !.inputs = [k \in 1..Len(@) |-> @[Len(@) + 1 - k]]]]

Graphs == << GShared, GDeep, GLoop, GBlock, GNested, GPair,
             SameName(GShared), SameName(GDeep), SameName(GLoop),
             SameName(GBlock), SameName(GNested), SameName(GPair),
             Mirror(GShared), Mirror(GDeep), Mirror(GLoop),
             Mirror(GBlock), Mirror(GNested), Mirror(GPair) >>

UidOf == << "u1", "u2", "u3", "u4", "u5", "u6", "u7", "u8", "u9", "u10",
            "u11", "u12", "u13", "u14", "u15" >>

\* The node_name arguments: strings, and one value that is not a str.
NameArgs == { [type |-> "str", value |-> "t"], [type |-> "str", value |-> "u"],
              [type |-> "str", value |-> "v"], [type |-> "str", value |-> "z"],
              [type |-> "int", value |-> "7"] }

Functions == { "find_all_with_name", "find_by_name",
               "try_find_closest_by_name", "output_function_graph" }

-----------------------------------------------------------------------------
VARIABLES
    gi,          \* the graph the call is made on (index into Graphs)
    fn,          \* the function of graph.py that is called
    root,        \* argument node
    node_name,   \* argument node_name
    max_depth,   \* argument max_depth
    pc,          \* "call", "loop", "ret", "done"
    stack, accum, visited,   \* the locals of the running traversal
    model,       \* output_function_graph's local string, as tokens
    result,      \* what depth_first_search returned
    ret,         \* what the called function returned
    raised,      \* the exception the called function raised, or "none"
    applied,     \* history: the nodes visitor has been called on
    trace        \* history: one record per loop iteration

vars == << gi, fn, root, node_name, max_depth, pc, stack, accum, visited,
           model, result, ret, raised, applied, trace >>

G == Graphs[gi]
Nodes == 1..Len(G)

-----------------------------------------------------------------------------
(* Attribute probing: the try/except dispatch of the traversal.            *)

\* node.block_root and node.block_arguments_mapping do not raise.
HasBlockRoot(node) == G[node].kind = "Block"

\* node.root_function does not raise AttributeError.
HasRootFunction(node) == G[node].kind \in {"Function", "Block", "Composite"}

\* A primitive (or block) function is its own root function.
RootFunction(node) ==
    IF G[node].kind = "Composite" THEN G[node].root_function ELSE node

\* node.is_output does not raise AttributeError, and is True.
IsOutputVariable(node) == G[node].kind = "Variable" /\ G[node].is_output

\* lambda x: x.name == node_name
visitor(x) == node_name.type = "str" /\ G[x].name = node_name.value

\* Mutant: the depth test is off by one.
TraverseIntoInclusive(depth) == max_depth = None \/ depth <= max_depth

\* max_depth is None or depth < max_depth
TraverseInto(depth) == max_depth = None \/ depth < max_depth

\* sort_by_distance, as each wrapper passes it.
sort_by_distance == fn = "try_find_closest_by_name"

Last(seq) == seq[Len(seq)]
Front(seq) == SubSeq(seq, 1, Len(seq) - 1)
Range(seq) == { seq[i] : i \in 1..Len(seq) }

-----------------------------------------------------------------------------
(* depth_first_search: the body of the while loop, s being the locals      *)
(* after stack.pop() gave (node, distance, depth) with node not visited.   *)

\* Mutant: the mapped-away composite inputs are not marked visited.
BlockBranchKeepsInputs(s, node, distance, depth) ==
    LET mapping == G[node].mapping
        actual  == [i \in 1..Len(mapping) |-> << mapping[i][2], distance + 1, depth >>]
    IN  [stack   |-> (s.stack \o actual)
                       \o << << G[node].block_root, distance + 1, depth + 1 >> >>,
         visited |-> s.visited \cup {node},
         accum   |-> IF visitor(node) THEN Append(s.accum, << node, distance >>)
                                      ELSE s.accum,
         called  |-> {node},
         branch  |-> "block"]

BlockBranch(s, node, distance, depth) ==
    LET mapping == G[node].mapping
        actual  == [i \in 1..Len(mapping) |-> << mapping[i][2], distance + 1, depth >>]
    IN  [stack   |-> (s.stack \o actual)
                       \o << << G[node].block_root, distance + 1, depth + 1 >> >>,
         visited |-> (s.visited \cup { mapping[i][1] : i \in 1..Len(mapping) })
                       \cup {node},
         accum   |-> IF visitor(node) THEN Append(s.accum, << node, distance >>)
                                      ELSE s.accum,
         called  |-> {node},
         branch  |-> "block"]

\* Mutant: the last input of a function is not pushed.
FunctionBranchDropsInput(s, node, distance, depth) ==
    LET inputs == Front(G[RootFunction(node)].inputs)
    IN  [stack   |-> s.stack \o [i \in 1..Len(inputs) |-> << inputs[i], distance + 1, depth >>],
         accum   |-> IF visitor(node) THEN Append(s.accum, << node, distance >>)
                                      ELSE s.accum,
         visited |-> s.visited \cup {node},
         called  |-> {node},
         branch  |-> "function"]

FunctionBranch(s, node, distance, depth) ==
    LET inputs == G[RootFunction(node)].inputs
    IN  [stack   |-> s.stack \o [i \in 1..Len(inputs) |-> << inputs[i], distance + 1, depth >>],
         accum   |-> IF visitor(node) THEN Append(s.accum, << node, distance >>)
                                      ELSE s.accum,
         visited |-> s.visited \cup {node},
         called  |-> {node},
         branch  |-> "function"]

OutputVariableBranch(s, node, distance, depth) ==
    [stack   |-> Append(s.stack, << G[node].owner, distance + 1, depth >>),
     visited |-> s.visited \cup {node},
     accum   |-> s.accum,
     called  |-> {},
     branch  |-> "output"]

\* Mutant: a leaf is accumulated but not added to visited.
LeafBranchUnmarked(s, node, distance, depth) ==
    [stack   |-> s.stack,
     accum   |-> IF visitor(node) THEN Append(s.accum, << node, distance >>)
                                  ELSE s.accum,
     visited |-> s.visited,
     called  |-> {node},
     branch  |-> "leaf"]

LeafBranch(s, node, distance, depth) ==
    [stack   |-> s.stack,
     accum   |-> IF visitor(node) THEN Append(s.accum, << node, distance >>)
                                  ELSE s.accum,
     visited |-> s.visited \cup {node},
     called  |-> {node},
     branch  |-> "leaf"]

\* Mutant: the visited test never skips a node.
AlreadyVisitedNever(s, node) == FALSE

AlreadyVisited(s, node) == node \in s.visited

Iteration(s) ==
    LET top      == Last(s.stack)
        node     == top[1]
        distance == top[2]
        depth    == top[3]
        popped   == [stack |-> Front(s.stack), accum |-> s.accum, visited |-> s.visited]
    IN  IF AlreadyVisited(s, node)
          THEN [stack |-> popped.stack, accum |-> popped.accum,
                visited |-> popped.visited, called |-> {}, branch |-> "skip"]
        ELSE IF TraverseInto(depth) /\ HasBlockRoot(node)
          THEN BlockBranch(popped, node, distance, depth)
        ELSE IF HasRootFunction(node)
          THEN FunctionBranch(popped, node, distance, depth)
        ELSE IF IsOutputVariable(node)
          THEN OutputVariableBranch(popped, node, distance, depth)
        ELSE LeafBranch(popped, node, distance, depth)

\* Mutant: the sort puts a later tuple before earlier ones of equal distance.
RECURSIVE InsertBeforeEqual(_, _)
InsertBeforeEqual(sorted, tpl) ==
    IF sorted = <<>> THEN << tpl >>
    ELSE IF Last(sorted)[2] < tpl[2] THEN Append(sorted, tpl)
    ELSE Append(InsertBeforeEqual(Front(sorted), tpl), Last(sorted))

\* accum.sort(key=lambda tpl: tpl[1]): Python's sort is stable.
RECURSIVE InsertByDistance(_, _)
InsertByDistance(sorted, tpl) ==
    IF sorted = <<>> THEN << tpl >>
    ELSE IF Last(sorted)[2] <= tpl[2] THEN Append(sorted, tpl)
    ELSE Append(InsertByDistance(Front(sorted), tpl), Last(sorted))

RECURSIVE SortAccum(_)
SortAccum(acc) ==
    IF acc = <<>> THEN <<>>
    ELSE InsertByDistance(SortAccum(Front(acc)), Last(acc))

\* [node for node, distance in accum]
NodesOf(acc) == [i \in 1..Len(acc) |-> acc[i][1]]

\* The whole of depth_first_search(start, visitor, max_depth, sorted), as a function.
RECURSIVE RunLoop(_)
RunLoop(s) ==
    IF s.stack = <<>> THEN s
    ELSE LET n == Iteration(s)
         IN  RunLoop([stack |-> n.stack, accum |-> n.accum, visited |-> n.visited])

depth_first_search(start, sorted) ==
    LET end == RunLoop([stack |-> << << start, 0, 0 >> >>, accum |-> <<>>, visited |-> {}])
    IN  NodesOf(IF sorted THEN SortAccum(end.accum) ELSE end.accum)

-----------------------------------------------------------------------------
(* The name-lookup wrappers: what each does with depth_first_search's list. *)

Returned(kind, list, node) == [kind |-> kind, list |-> list, node |-> node]
Nothing == Returned("nothing", <<>>, None)

FindAllWithNameResult(res) ==
    [raised |-> "none", ret |-> Returned("list", res, None)]

\* Mutant: several matches are not an error, the first is returned.
FindByNameResultFirst(res) ==
    IF res = <<>> THEN [raised |-> "none", ret |-> Returned("None", <<>>, None)]
    ELSE [raised |-> "none", ret |-> Returned("node", <<>>, res[1])]

FindByNameResult(res) ==
    IF Len(res) > 1 THEN [raised |-> "ValueError", ret |-> Nothing]
    ELSE IF res = <<>> THEN [raised |-> "none", ret |-> Returned("None", <<>>, None)]
    ELSE [raised |-> "none", ret |-> Returned("node", <<>>, res[1])]

TryFindClosestByNameResult(res) ==
    IF res = <<>> THEN [raised |-> "none", ret |-> Returned("None", <<>>, None)]
    ELSE [raised |-> "none", ret |-> Returned("node", <<>>, res[1])]

\* isinstance(node_name, str)
IsStr(arg) == arg.type = "str"

-----------------------------------------------------------------------------
(* output_function_graph with no file path: the model string is a sequence  *)
(* of tokens (an op_name, a uid, a separator or "\n").                      *)

\* model += child.uid, and ", " after every child but the last
InputUids(inputs) ==
    IF inputs = <<>> THEN <<>>
    ELSE [k \in 1..(2 * Len(inputs) - 1) |->
            IF k % 2 = 1 THEN UidOf[inputs[(k + 1) \div 2]] ELSE ", "]

\* op_name + '(' + the inputs + ") -> " + outputs[0].uid + '\n'
FunctionLine(node) ==
    (<< G[node].op_name, "(" >> \o InputUids(G[node].inputs))
        \o << ") -> ", UidOf[G[node].outputs[1]], "\n" >>

OutputIteration(s) ==
    LET top    == Last(s.stack)
        popped == Front(s.stack)
    IN  IF top \in s.visited
          THEN [stack |-> popped, accum |-> s.accum, visited |-> s.visited,
                model |-> s.model, node |-> top, branch |-> "skip"]
        ELSE IF HasRootFunction(top)
          THEN LET node == RootFunction(top)
               IN  [stack   |-> popped \o G[node].inputs,
                    model   |-> s.model \o FunctionLine(node),
                    accum   |-> Append(s.accum, node),
                    visited |-> s.visited \cup {node},
                    node    |-> node, branch |-> "function"]
        ELSE [stack   |-> IF IsOutputVariable(top) THEN Append(popped, G[top].owner)
                                                   ELSE popped,
              model   |-> s.model,
              accum   |-> Append(s.accum, top),
              visited |-> s.visited \cup {top},
              node    |-> top,
              branch  |-> IF IsOutputVariable(top) THEN "output" ELSE "leaf"]

\* str.split("\n"): the pieces between the separators, an empty last piece
\* after a trailing separator included.
RECURSIVE SplitFrom(_, _, _, _)
SplitFrom(text, i, pieces, piece) ==
    IF i > Len(text) THEN Append(pieces, piece)
    ELSE IF text[i] = "\n" THEN SplitFrom(text, i + 1, Append(pieces, piece), <<>>)
    ELSE SplitFrom(text, i + 1, pieces, Append(piece, text[i]))

SplitLines(text) == SplitFrom(text, 1, <<>>, <<>>)

\* seq[::-1]
Reversed(seq) == [i \in 1..Len(seq) |-> seq[Len(seq) + 1 - i]]

\* "\n".join(lines)
RECURSIVE JoinLines(_)
JoinLines(lines) ==
    IF lines = <<>> THEN <<>>
    ELSE IF Len(lines) = 1 THEN lines[1]
    ELSE (JoinLines(Front(lines)) \o << "\n" >>) \o Last(lines)

\* Mutant: the lines are returned in the order they were written.
ReturnedTextInOrder(text) == JoinLines(SplitLines(text))

ReturnedText(text) == JoinLines(Reversed(SplitLines(text)))

-----------------------------------------------------------------------------
\* Before the call: no function of graph.py is running.
Init ==
    /\ gi = 1
    /\ fn = "none"
    /\ root = 1
    /\ node_name = [type |-> "str", value |-> "z"]
    /\ max_depth = None
    /\ pc = "call"
    /\ stack = <<>>
    /\ accum = <<>>
    /\ visited = {}
    /\ model = <<>>
    /\ result = <<>>
    /\ ret = Nothing
    /\ raised = "none"
    /\ applied = {}
    /\ trace = <<>>

args == << gi, root, node_name, max_depth >>

\* The call f(node, node_name, max_depth) on some node of some graph.
Call(f, withName) ==
    /\ pc = "call"
    /\ fn' = f
    /\ \E g \in 1..Len(Graphs) : gi' = g /\ root' \in 1..Len(Graphs[g])
    /\ IF withName
         THEN node_name' \in NameArgs /\ max_depth' \in {None} \cup 0..MaxDepthArg
         ELSE UNCHANGED << node_name, max_depth >>

\* stack = [(root,0,0)]; accum = []; visited = set()
EnterSearch ==
    /\ stack' = << << root', 0, 0 >> >>
    /\ accum' = <<>>
    /\ visited' = {}
    /\ pc' = "loop"
    /\ UNCHANGED << model, result, ret, raised, applied, trace >>

Raise(exc) ==
    /\ raised' = exc
    /\ pc' = "done"
    /\ UNCHANGED << stack, accum, visited, model, result, ret, applied, trace >>

FindAllWithName ==
    /\ Call("find_all_with_name", TRUE)
    /\ EnterSearch

FindByName ==
    /\ Call("find_by_name", TRUE)
    /\ IF IsStr(node_name') THEN EnterSearch ELSE Raise("ValueError")

TryFindClosestByName ==
    /\ Call("try_find_closest_by_name", TRUE)
    /\ IF IsStr(node_name') THEN EnterSearch ELSE Raise("ValueError")

\* One iteration of depth_first_search's while loop.
SearchIteration ==
    /\ pc = "loop" /\ fn # "output_function_graph"
    /\ stack # <<>>
    /\ LET top == Last(stack)
           n   == Iteration([stack |-> stack, accum |-> accum, visited |-> visited])
       IN  /\ stack' = n.stack
           /\ accum' = n.accum
           /\ visited' = n.visited
           /\ applied' = applied \cup n.called
           /\ trace' = Append(trace,
                  [node |-> top[1], distance |-> top[2], depth |-> top[3],
                   branch |-> n.branch,
                   pushed |-> SubSeq(n.stack, Len(stack), Len(n.stack)),
                   marked |-> n.visited \ visited])
    /\ UNCHANGED << args, fn, pc, model, result, ret, raised >>

\* The loop has ended: the optional sort and the return of the node list.
SearchReturn ==
    /\ pc = "loop" /\ fn # "output_function_graph"
    /\ stack = <<>>
    /\ accum' = IF sort_by_distance THEN SortAccum(accum) ELSE accum
    /\ result' = NodesOf(accum')
    /\ pc' = "ret"
    /\ UNCHANGED << args, fn, stack, visited, model, ret, raised, applied, trace >>

WrapperReturn ==
    /\ pc = "ret"
    /\ LET r == CASE fn = "find_all_with_name" -> FindAllWithNameResult(result)
                  [] fn = "find_by_name" -> FindByNameResult(result)
                  [] fn = "try_find_closest_by_name" -> TryFindClosestByNameResult(result)
       IN  /\ ret' = r.ret
           /\ raised' = r.raised
    /\ pc' = "done"
    /\ UNCHANGED << args, fn, stack, accum, visited, model, result, applied, trace >>

\* model = ''; stack = [node]; accum = []; visited = set()
OutputFunctionGraph ==
    /\ Call("output_function_graph", FALSE)
    /\ stack' = << root' >>
    /\ accum' = <<>>
    /\ visited' = {}
    /\ model' = <<>>
    /\ pc' = "loop"
    /\ UNCHANGED << result, ret, raised, applied, trace >>

OutputLoop ==
    /\ pc = "loop" /\ fn = "output_function_graph"
    /\ stack # <<>>
    /\ LET n == OutputIteration([stack |-> stack, accum |-> accum,
                                 visited |-> visited, model |-> model])
       IN  /\ stack' = n.stack
           /\ accum' = n.accum
           /\ visited' = n.visited
           /\ model' = n.model
           /\ applied' = IF n.branch = "skip" THEN applied ELSE applied \cup {n.node}
           /\ trace' = Append(trace,
                  [node |-> Last(stack), distance |-> 0, depth |-> 0,
                   branch |-> n.branch,
                   pushed |-> SubSeq(n.stack, Len(stack), Len(n.stack)),
                   marked |-> {n.node}])
    /\ UNCHANGED << args, fn, pc, result, ret, raised >>

OutputReturn ==
    /\ pc = "loop" /\ fn = "output_function_graph"
    /\ stack = <<>>
    /\ ret' = Returned("str", ReturnedText(model), None)
    /\ pc' = "done"
    /\ UNCHANGED << args, fn, stack, accum, visited, model, result, raised, applied, trace >>

Next ==
    \/ FindAllWithName
    \/ FindByName
    \/ TryFindClosestByName
    \/ SearchIteration
    \/ SearchReturn
    \/ WrapperReturn
    \/ OutputFunctionGraph
    \/ OutputLoop
    \/ OutputReturn

Spec == Init /\ [][Next]_vars

\* A call that has started runs on: Python executes the loop to its end.
LiveSpec == Spec /\ WF_vars(Next)

-----------------------------------------------------------------------------
(* Graph notions the properties are stated with.                            *)

Searching == fn \notin {"none", "output_function_graph"}
SearchEnded == Searching /\ pc \in {"ret", "done"} /\ raised = "none"

MappedInputs(b) == { G[b].mapping[i][1] : i \in 1..Len(G[b].mapping) }
ActualInputs(b) == { G[b].mapping[i][2] : i \in 1..Len(G[b].mapping) }

\* The edges of the graph: a Function's root_function.inputs, an output
\* variable's owner, a block's block_root and its actual inputs.
Edges ==
    [n \in Nodes |->
        (IF HasRootFunction(n) THEN Range(G[RootFunction(n)].inputs) ELSE {})
        \cup (IF HasBlockRoot(n) THEN {G[n].block_root} \cup ActualInputs(n) ELSE {})
        \cup (IF IsOutputVariable(n) THEN {G[n].owner} ELSE {})]

RECURSIVE Closure(_, _)
Closure(S, succ) ==
    LET T == S \cup UNION { succ[n] : n \in S }
    IN  IF T = S THEN S ELSE Closure(T, succ)

Reachable == Closure({root}, Edges)

ReachableBlocks == { b \in Reachable : HasBlockRoot(b) }
MappedAway == UNION { MappedInputs(b) : b \in ReachableBlocks }
OutputVariables == { n \in Nodes : IsOutputVariable(n) }

NoDuplicates(seq) == \A i, j \in 1..Len(seq) : seq[i] = seq[j] => i = j

\* The loop iterations that handled their node (it was not yet visited).
Handled == { i \in 1..Len(trace) : trace[i].branch # "skip" }

-----------------------------------------------------------------------------
C2_Terminates ==
    /\ <>(pc = "done")
    /\ [](Searching =>
            /\ \A i, j \in Handled : trace[i].node = trace[j].node => i = j
            /\ \A i \in Handled : trace[i].node \in visited)

\* A search of a cyclic graph has ended after it came back to a node it had
\* visited before.
C2_Witness ==
    /\ Searching /\ pc = "done" /\ gi = 3 /\ root = 1
    /\ \E i \in 1..Len(trace) : trace[i].branch = "skip" /\ trace[i].node = root

\* C3: at every iteration accum holds no node twice and every node of accum
\* is in visited; the returned list holds no node twice.
C3_AccumUnique ==
    (Searching /\ pc # "call") =>
        /\ NoDuplicates(NodesOf(accum))
        /\ Range(NodesOf(accum)) \subseteq visited
        /\ NoDuplicates(result)

\* The search returned several nodes, after popping a node a second time.
C3_Witness ==
    /\ SearchEnded /\ Len(result) >= 2
    /\ \E i \in 1..Len(trace) : trace[i].branch = "skip"

-----------------------------------------------------------------------------
\* The fewest edges on a path from root to the reachable node n.
RECURSIVE DistanceFrom(_, _, _)
DistanceFrom(frontier, n, d) ==
    IF n \in frontier THEN d
    ELSE DistanceFrom(frontier \cup UNION { Edges[m] : m \in frontier }, n, d + 1)

ShortestDistance(n) == DistanceFrom({root}, n, 0)

\* C4: try_find_closest_by_name returns a matching node whose shortest-path
\* distance from the start node is minimal among the matching nodes, and
\* None when no node matches.
C4_ClosestIsShortest ==
    (fn = "try_find_closest_by_name" /\ pc = "done" /\ raised = "none"
       /\ max_depth = None) =>
        IF result = <<>> THEN ret.kind = "None"
        ELSE /\ ret.kind = "node"
             /\ ret.node \in Range(result)
             /\ \A m \in Range(result) :
                    ShortestDistance(ret.node) <= ShortestDistance(m)

-----------------------------------------------------------------------------
\* The nodes reachable from root by a path that enters at most k composites
\* (takes at most k block_root edges).
LevelEdges(k) ==
    [p \in Nodes \X (0..k) |->
        { << m, p[2] >> : m \in
            (IF HasRootFunction(p[1]) THEN Range(G[RootFunction(p[1])].inputs) ELSE {})
            \cup (IF HasBlockRoot(p[1]) THEN ActualInputs(p[1]) ELSE {})
            \cup (IF IsOutputVariable(p[1]) THEN {G[p[1]].owner} ELSE {}) }
        \cup (IF HasBlockRoot(p[1]) /\ p[2] < k
                THEN { << G[p[1]].block_root, p[2] + 1 >> } ELSE {})]

WithinLevels(k) == { p[1] : p \in Closure({ << root, 0 >> }, LevelEdges(k)) }

\* C5: with max_depth = k >= 0 no stack entry has block depth above k, a
\* block popped at depth k is expanded through root_function.inputs and its
\* composite is not pushed, no node lying only inside composites nested more
\* than k levels deep is visited or returned, and with k = 0 no composite is
\* entered.
C5_MaxDepthBounds ==
    (Searching /\ pc # "call" /\ max_depth # None) =>
        /\ \A i \in 1..Len(stack) : stack[i][3] <= max_depth
        /\ \A i \in Handled :
             /\ \A j \in 1..Len(trace[i].pushed) : trace[i].pushed[j][3] <= max_depth
             /\ (HasBlockRoot(trace[i].node) /\ trace[i].depth = max_depth) =>
                  LET inputs == G[trace[i].node].inputs
                  IN  /\ trace[i].branch = "function"
                      /\ trace[i].pushed =
                           [j \in 1..Len(inputs) |->
                              << inputs[j], trace[i].distance + 1, trace[i].depth >>]
             /\ max_depth = 0 => trace[i].branch # "block"
        /\ (applied \cup Range(NodesOf(accum)) \cup Range(result))
              \subseteq WithinLevels(max_depth)

\* With max_depth = 1 the search entered the outer block's composite and
\* expanded the inner block, met at depth 1, as an ordinary Function.
C5_Witness ==
    /\ SearchEnded /\ max_depth = 1
    /\ \E i, j \in Handled :
          /\ trace[i].branch = "block" /\ trace[i].depth = 0
          /\ HasBlockRoot(trace[j].node) /\ trace[j].depth = 1
          /\ trace[j].branch = "function"

-----------------------------------------------------------------------------
\* C6: find_by_name returns None exactly when find_all_with_name returns an
\* empty list on the same arguments, the single element of a one-element
\* list, raises ValueError when the list has more than one element, and
\* raises ValueError before any traversal step when node_name is no string.
C6_FindByNameAgrees ==
    (fn = "find_by_name" /\ pc = "done") =>
        IF ~IsStr(node_name)
          THEN raised = "ValueError" /\ ret = Nothing /\ trace = <<>> /\ stack = <<>>
          ELSE LET all == depth_first_search(root, FALSE)
               IN  /\ (ret.kind = "None" /\ raised = "none") <=> all = <<>>
                   /\ Len(all) = 1 => (raised = "none" /\ ret.kind = "node"
                                        /\ ret.node = all[1])
                   /\ (raised = "ValueError" /\ ret = Nothing) <=> Len(all) > 1

\* find_by_name has raised ValueError for a name that two nodes carry.
C6_Witness ==
    /\ fn = "find_by_name" /\ pc = "done" /\ IsStr(node_name)
    /\ raised = "ValueError" /\ Len(result) = 2

-----------------------------------------------------------------------------
\* The distance recorded for node n when it was accumulated.
RecordedDistance(n) ==
    LET i == CHOOSE i \in Handled : trace[i].node = n IN trace[i].distance

PositionIn(seq, x) == CHOOSE i \in 1..Len(seq) : seq[i] = x

\* C7: with sort_by_distance=True the result is a permutation of the result
\* with sort_by_distance=False, in non-decreasing recorded distance, nodes
\* of equal distance keeping their discovery order.
C7_SortedByDistance ==
    (SearchEnded /\ sort_by_distance) =>
        LET unsorted == depth_first_search(root, FALSE)
        IN  /\ Len(result) = Len(unsorted)
            /\ Range(result) = Range(unsorted)
            /\ NoDuplicates(result)
            /\ \A i, j \in 1..Len(result) : i < j =>
                 /\ RecordedDistance(result[i]) <= RecordedDistance(result[j])
                 /\ RecordedDistance(result[i]) = RecordedDistance(result[j]) =>
                      PositionIn(unsorted, result[i]) < PositionIn(unsorted, result[j])

\* The sorted search returned two nodes of equal distance, in an order that
\* differs from the order of discovery.
C7_Witness ==
    /\ SearchEnded /\ sort_by_distance
    /\ \E i, j \in 1..Len(result) :
          i < j /\ RecordedDistance(result[i]) = RecordedDistance(result[j])
    /\ result # depth_first_search(root, FALSE)

-----------------------------------------------------------------------------
\* output_function_graph follows inputs and owners only.
OutputEdges ==
    [n \in Nodes |->
        (IF HasRootFunction(n) THEN Range(G[RootFunction(n)].inputs) ELSE {})
        \cup (IF IsOutputVariable(n) THEN {G[n].owner} ELSE {})]

ReachableFunctions ==
    { RootFunction(n) : n \in { m \in Closure({root}, OutputEdges) : HasRootFunction(m) } }

RECURSIVE CommaSeparated(_)
CommaSeparated(uids) ==
    IF Len(uids) = 0 THEN <<>>
    ELSE IF Len(uids) = 1 THEN << uids[1] >>
    ELSE CommaSeparated(Front(uids)) \o << ", ", Last(uids) >>

\* op_name(input uids separated by ', ') -> uid of the first output
ExpectedLine(f) ==
    (<< G[f].op_name, "(" >>
        \o CommaSeparated([i \in 1..Len(G[f].inputs) |-> UidOf[G[f].inputs[i]]]))
        \o << ") -> ", UidOf[G[f].outputs[1]] >>

\* C8: the text output_function_graph returns holds, for every Function
\* node reachable from the start node, exactly one line
\* op_name(uids) -> uid, the lines are in the reverse of the order in which
\* the Function nodes were visited, and each node is processed at most once.
C8_OutputLines ==
    (fn = "output_function_graph" /\ pc = "done") =>
        LET lines == SplitLines(ret.list)
            LineOf(f) == CHOOSE i \in 1..Len(lines) : lines[i] = ExpectedLine(f)
            fvisits == { i \in Handled : trace[i].branch = "function" }
            Visited(i) == CHOOSE f \in trace[i].marked : TRUE
        IN  /\ ret.kind = "str"
            /\ \A f \in ReachableFunctions :
                 Cardinality({ i \in 1..Len(lines) : lines[i] = ExpectedLine(f) }) = 1
            /\ \A i, j \in fvisits : i < j => LineOf(Visited(j)) < LineOf(Visited(i))
            /\ \A i, j \in Handled : trace[i].marked = trace[j].marked => i = j

\* output_function_graph returned a text of several lines for a graph in
\* which a node was reached a second time.
C8_Witness ==
    /\ fn = "output_function_graph" /\ pc = "done"
    /\ Cardinality(ReachableFunctions) >= 2
    /\ \E i \in 1..Len(trace) : trace[i].branch = "skip"

-----------------------------------------------------------------------------
\* C9: a block node the search traverses into is not added to accum and is
\* never in the returned list.
C9_TraversedBlockNotReturned ==
    Searching =>
        \A i \in Handled : trace[i].branch = "block" =>
            /\ trace[i].node \notin Range(NodesOf(accum))
            /\ trace[i].node \notin Range(result)

-----------------------------------------------------------------------------
\* C10: traversing into a block at distance d and block depth p pushes each
\* actual input at (d+1, p) and the composite at (d+1, p+1) and marks every
\* mapped-away composite input visited, so that none of them is passed to
\* visitor or returned.
C10_BlockRedirect ==
    Searching =>
        \A i \in Handled : trace[i].branch = "block" =>
            LET e   == trace[i]
                map == G[e.node].mapping
            IN  /\ e.pushed =
                     [j \in 1..Len(map) |-> << map[j][2], e.distance + 1, e.depth >>]
                       \o << << G[e.node].block_root, e.distance + 1, e.depth + 1 >> >>
                /\ MappedInputs(e.node) \subseteq visited
                /\ MappedInputs(e.node)
                     \cap (applied \cup Range(NodesOf(accum)) \cup Range(result)) = {}

\* The search traversed into a block and later popped the composite input
\* that the block had mapped away.
C10_Witness ==
    /\ SearchEnded
    /\ \E i \in Handled, j \in 1..Len(trace) :
          /\ trace[i].branch = "block" /\ i < j
          /\ trace[j].node \in MappedInputs(trace[i].node)
          /\ trace[j].branch = "skip"

=============================================================================
